---- MODULE Spec2Model ----
(***************************************************************************)
(* Podcast Finder Pro (src/podcast_finder_app.py): the directory client    *)
(* (search_podcasts, search_by_term), the record filter (filter_podcasts), *)
(* the projector (extract_podcast_data) and the search flow of main().     *)
(*                                                                         *)
(* Conventions of the model                                                *)
(*  - A Python str is a sequence of one-character strings, so that         *)
(*    .lower(), `in` (substring) and strftime are computed, not assumed.   *)
(*  - A dict entry is a tagged value: tag "absent" (no such key), "null"   *)
(*    (key present, value None) or "val" (key present, value v).           *)
(*  - An uncaught Python exception is the outcome "raise".                 *)
(*  - The clock is a pair (sec, half): sec whole seconds since the epoch   *)
(*    plus half/2 seconds, so that int(...timestamp()) truncates.          *)
(***************************************************************************)
EXTENDS Integers, Sequences, FiniteSets, TLC

VARIABLES
    pc,            \* position of the running code (which function, which line)
    now,           \* the clock reading datetime.now() / time.time() returns
    tz,            \* the local zone's offset from UTC, in seconds
    secrets,       \* st.secrets["podcast_index"]
    api_key,       \* main: api_key
    api_secret,    \* main: api_secret
    search_term,   \* main: search_term
    search_button, \* main: search_button
    criteria,      \* the seven filter arguments of filter_podcasts
    sent,          \* the HTTP requests issued so far, in order
    response,      \* what requests.get produced for the last request
    podcasts,      \* the fetched records / the input of filter_podcasts
    error,         \* the error string of the search functions (None: no error)
    filtered,      \* what filter_podcasts returned
    df,            \* what extract_podcast_data returned
    notices        \* the st.success / st.warning / st.error / st.info messages shown

vars == <<pc, now, tz, secrets, api_key, api_secret, search_term, search_button,
          criteria, sent, response, podcasts, error, filtered, df, notices>>

-----------------------------------------------------------------------------
(* Bounds of the model *)

\* longest input list handed to filter_podcasts / extract_podcast_data
MaxLen == 2

\* longest "feeds" array of an HTTP response body
MaxFeeds == 2

-----------------------------------------------------------------------------
(* Python values *)

\* timedelta(days=1) in seconds
SecondsPerDay == 86400

\* description[:200]
DescLimit == 200

\* requests.get(..., timeout=30)
Timeout == 30

\* params 'max': 1000 of search_by_term
MaxByTerm == 1000

Absent(d) == [tag |-> "absent", v |-> d]

Null(d) == [tag |-> "null", v |-> d]

Val(x) == [tag |-> "val", v |-> x]

\* dict.get(key, default): the default only when the key is absent; a key that
\* is present with the value None yields None.
Get(d, key, default) ==
    IF d[key].tag = "absent" THEN Val(default) ELSE d[key]

\* dict.get(key): None when the key is absent.
Get1(d, key) ==
    IF d[key].tag = "absent" THEN Null(d[key].v) ELSE d[key]

UpperCase == <<"A","B","C","D","E","F","G","H","I","J","K","L","M",
               "N","O","P","Q","R","S","T","U","V","W","X","Y","Z">>

LowerCase == <<"a","b","c","d","e","f","g","h","i","j","k","l","m",
               "n","o","p","q","r","s","t","u","v","w","x","y","z">>

LowerChar(ch) ==
    IF \E i \in 1..Len(UpperCase) : UpperCase[i] = ch
    THEN LowerCase[CHOOSE i \in 1..Len(UpperCase) : UpperCase[i] = ch]
    ELSE ch

\* str.lower()
Lower(s) == [i \in 1..Len(s) |-> LowerChar(s[i])]

\* sub in s, for two str
Contains(sub, s) ==
    \E i \in 0..(Len(s) - Len(sub)) : SubSeq(s, i + 1, i + Len(sub)) = sub

\* x in list
InList(x, list) == \E i \in 1..Len(list) : list[i] = x

\* str.strip() on the blank character
RECURSIVE LStrip(_)
LStrip(s) == IF s # << >> /\ Head(s) = " " THEN LStrip(Tail(s)) ELSE s

RECURSIVE RStrip(_)
RStrip(s) ==
    IF s # << >> /\ s[Len(s)] = " " THEN RStrip(SubSeq(s, 1, Len(s) - 1)) ELSE s

Strip(s) == RStrip(LStrip(s))

\* int(x) of the float x = whole + half/2: truncation toward zero
IntTrunc(whole, half) == IF whole < 0 /\ half = 1 THEN whole + 1 ELSE whole

\* int((datetime.now() - timedelta(days=days)).timestamp())
CutoffOf(clock, days) == IntTrunc(clock.sec - days * SecondsPerDay, clock.half)

\* The reading of a second datetime.now(), clock.gap half-seconds after the first
\* (lines 101 and 102 read the clock one after the other).
SecondReading(clock) ==
    [sec  |-> clock.sec + ((clock.half + clock.gap) \div 2),
     half |-> (clock.half + clock.gap) % 2,
     gap  |-> 0]

-----------------------------------------------------------------------------
(* filter_podcasts, lines 98-153 *)

EN == <<"e","n">>

EN_US == <<"e","n","-","u","s">>

EN_GB == <<"e","n","-","g","b">>

EN_CA == <<"e","n","-","c","a">>

EN_AU == <<"e","n","-","a","u">>

\* Each step of the loop body yields "pass" (fall through to the next step),
\* "skip" (continue: the record is dropped) or "raise" (an uncaught exception).

\* EpisodeCheck with the floor exclusive (<= for <)
EpisodeCheckExclusive(p, c) ==
    LET episode_count == Get(p, "episodeCount", 0) IN
    IF episode_count.tag = "null" THEN "raise"
    ELSE IF episode_count.v <= c.min_episodes THEN "skip"
    ELSE "pass"

\* lines 108-110
EpisodeCheck(p, c) ==
    LET episode_count == Get(p, "episodeCount", 0) IN
    IF episode_count.tag = "null" THEN "raise"          \* None < int: TypeError
    ELSE IF episode_count.v < c.min_episodes THEN "skip"
    ELSE "pass"

\* lines 113-116
LanguageCheck(p, c) ==
    IF c.languages = << >> THEN "pass"
    ELSE LET podcast_language == Get(p, "language", << >>) IN
         IF podcast_language.tag = "null" THEN "raise"  \* None.lower(): AttributeError
         ELSE IF ~InList(Lower(podcast_language.v),
                         [i \in 1..Len(c.languages) |-> Lower(c.languages[i])])
              THEN "skip"
              ELSE "pass"

\* lines 119-120: None is falsy
ExplicitCheck(p, c) ==
    LET explicit == Get(p, "explicit", FALSE) IN
    IF c.exclude_explicit /\ explicit.tag = "val" /\ explicit.v THEN "skip" ELSE "pass"

\* RecencyCheck treating a zero lastUpdateTime as unknown, the way line 130
\* treats a zero dateAdded
RecencyCheckZeroUnknown(p, cutoff_timestamp) ==
    LET last_update == Get(p, "lastUpdateTime", 0) IN
    IF last_update.tag = "null" THEN "raise"
    ELSE IF last_update.v > 0 /\ last_update.v < cutoff_timestamp THEN "skip"
    ELSE "pass"

\* lines 123-125
RecencyCheck(p, cutoff_timestamp) ==
    LET last_update == Get(p, "lastUpdateTime", 0) IN
    IF last_update.tag = "null" THEN "raise"            \* None < int: TypeError
    ELSE IF last_update.v < cutoff_timestamp THEN "skip"
    ELSE "pass"

\* lines 128-131
CreatedCheck(p, c, created_cutoff) ==
    IF ~(c.created_within_days > 0) THEN "pass"
    ELSE LET date_added == Get(p, "dateAdded", 0) IN
         IF date_added.tag = "null" THEN "raise"        \* None > 0: TypeError
         ELSE IF date_added.v > 0 /\ date_added.v < created_cutoff THEN "skip"
         ELSE "pass"

\* CountryCheck with the US rule's "or plain en" applied to every country
CountryCheckPlainEn(p, c) ==
    IF c.country_filter = "Any" THEN "pass"
    ELSE LET got == Get(p, "language", << >>) IN
         IF got.tag = "null" THEN "raise"
         ELSE LET podcast_language == Lower(got.v) IN
              IF c.country_filter = "US" /\ ~Contains(EN_US, podcast_language)
                                         /\ podcast_language # EN
              THEN "skip"
              ELSE IF c.country_filter = "UK" /\ ~Contains(EN_GB, podcast_language)
                                              /\ podcast_language # EN
              THEN "skip"
              ELSE IF c.country_filter = "Canada" /\ ~Contains(EN_CA, podcast_language)
                                                  /\ podcast_language # EN
              THEN "skip"
              ELSE IF c.country_filter = "Australia" /\ ~Contains(EN_AU, podcast_language)
                                                     /\ podcast_language # EN
              THEN "skip"
              ELSE "pass"

\* lines 134-143
CountryCheck(p, c) ==
    IF c.country_filter = "Any" THEN "pass"
    ELSE LET got == Get(p, "language", << >>) IN
         IF got.tag = "null" THEN "raise"               \* None.lower(): AttributeError
         ELSE LET podcast_language == Lower(got.v) IN
              IF c.country_filter = "US" /\ ~Contains(EN_US, podcast_language)
                                         /\ podcast_language # EN
              THEN "skip"
              ELSE IF c.country_filter = "UK" /\ ~Contains(EN_GB, podcast_language)
              THEN "skip"
              ELSE IF c.country_filter = "Canada" /\ ~Contains(EN_CA, podcast_language)
              THEN "skip"
              ELSE IF c.country_filter = "Australia" /\ ~Contains(EN_AU, podcast_language)
              THEN "skip"
              ELSE "pass"

\* lines 146-149
CategoryCheck(p, c) ==
    IF c.categories_filter = << >> THEN "pass"
    ELSE LET got == Get(p, "categories", << >>) IN
         IF got.tag = "null" THEN "raise"               \* None.values(): AttributeError
         ELSE LET podcast_categories == [i \in 1..Len(got.v) |-> Lower(got.v[i])] IN
              IF ~(\E f \in 1..Len(c.categories_filter) :
                     \E k \in 1..Len(podcast_categories) :
                        Contains(Lower(c.categories_filter[f]), podcast_categories[k]))
              THEN "skip"
              ELSE "pass"

\* One iteration of the loop, lines 106-151: "pass" means line 151 appends.
LoopBody(p, c, cutoff_timestamp, created_cutoff) ==
    LET s1 == EpisodeCheck(p, c) IN
    IF s1 # "pass" THEN s1 ELSE
    LET s2 == LanguageCheck(p, c) IN
    IF s2 # "pass" THEN s2 ELSE
    LET s3 == ExplicitCheck(p, c) IN
    IF s3 # "pass" THEN s3 ELSE
    LET s4 == RecencyCheck(p, cutoff_timestamp) IN
    IF s4 # "pass" THEN s4 ELSE
    LET s5 == CreatedCheck(p, c, created_cutoff) IN
    IF s5 # "pass" THEN s5 ELSE
    LET s6 == CountryCheck(p, c) IN
    IF s6 # "pass" THEN s6 ELSE
    CategoryCheck(p, c)

\* FilterLoop appending a record only when the list does not hold it yet
RECURSIVE FilterLoopDedup(_, _, _, _, _, _)
FilterLoopDedup(list, i, acc, c, cutoff_timestamp, created_cutoff) ==
    IF i > Len(list) THEN [outcome |-> "return", value |-> acc]
    ELSE LET step == LoopBody(list[i], c, cutoff_timestamp, created_cutoff) IN
         IF step = "raise" THEN [outcome |-> "raise", value |-> << >>]
         ELSE FilterLoopDedup(list, i + 1,
                              IF step = "pass" /\ ~InList(list[i], acc)
                              THEN Append(acc, list[i]) ELSE acc,
                              c, cutoff_timestamp, created_cutoff)

\* The loop of lines 104-153 from position i with the list built so far.
RECURSIVE FilterLoop(_, _, _, _, _, _)
FilterLoop(list, i, acc, c, cutoff_timestamp, created_cutoff) ==
    IF i > Len(list) THEN [outcome |-> "return", value |-> acc]
    ELSE LET step == LoopBody(list[i], c, cutoff_timestamp, created_cutoff) IN
         IF step = "raise" THEN [outcome |-> "raise", value |-> << >>]
         ELSE FilterLoop(list, i + 1,
                         IF step = "pass" THEN Append(acc, list[i]) ELSE acc,
                         c, cutoff_timestamp, created_cutoff)

\* filter_podcasts(podcasts, min_episodes, ..., country_filter) at clock reading clock
filter_podcasts(list, c, clock) ==
    LET cutoff_timestamp == CutoffOf(clock, c.max_days_since_post)
        created_cutoff   == IF c.created_within_days > 0
                            THEN CutoffOf(SecondReading(clock), c.created_within_days)
                            ELSE 0
    IN  FilterLoop(list, 1, << >>, c, cutoff_timestamp, created_cutoff)

-----------------------------------------------------------------------------
(* extract_podcast_data, lines 155-179 *)

DigitChars == <<"0","1","2","3","4","5","6","7","8","9">>

Digit(n) == DigitChars[n + 1]

\* '%02d' and '%04d' of strftime
Pad2(n) == <<Digit((n \div 10) % 10), Digit(n % 10)>>

Pad4(n) == <<Digit((n \div 1000) % 10), Digit((n \div 100) % 10),
             Digit((n \div 10) % 10), Digit(n % 10)>>

\* str(n) of a non-negative int
RECURSIVE Str(_)
Str(n) == IF n < 10 THEN <<Digit(n)>> ELSE Str(n \div 10) \o <<Digit(n % 10)>>

\* The proleptic Gregorian date of the day `days` days after 1970-01-01.
CivilFromDays(days) ==
    LET z   == days + 719468
        era == z \div 146097
        doe == z - era * 146097
        yoe == (doe - (doe \div 1460) + (doe \div 36524) - (doe \div 146096)) \div 365
        doy == doe - (365 * yoe + (yoe \div 4) - (yoe \div 100))
        mp  == (5 * doy + 2) \div 153
        d   == doy - ((153 * mp + 2) \div 5) + 1
        m   == IF mp < 10 THEN mp + 3 ELSE mp - 9
        y   == yoe + era * 400 + (IF m <= 2 THEN 1 ELSE 0)
    IN  [year |-> y, month |-> m, day |-> d]

\* datetime.fromtimestamp(ts): the local date of the instant ts
fromtimestamp(ts, zone) == CivilFromDays((ts + zone) \div SecondsPerDay)

\* date.strftime('%Y-%m-%d')
strftime(date) ==
    Pad4(date.year) \o <<"-">> \o Pad2(date.month) \o <<"-">> \o Pad2(date.day)

\* ', '.join(values)
RECURSIVE Join(_)
Join(values) ==
    IF values = << >> THEN << >>
    ELSE IF Len(values) = 1 THEN values[1]
    ELSE values[1] \o <<",", " ">> \o Join(Tail(values))

\* line 170: no test for a zero or missing timestamp
LastUpdatedCell(p, zone) ==
    strftime(fromtimestamp(Get(p, "lastUpdateTime", 0).v, zone))

\* line 171: ... if podcast.get('dateAdded') else ''
CreatedCell(p, zone) ==
    LET present == Get1(p, "dateAdded") IN
    IF present.tag = "val" /\ present.v # 0
    THEN strftime(fromtimestamp(Get(p, "dateAdded", 0).v, zone))
    ELSE << >>

\* line 174
DescriptionCell(p) ==
    LET description == Get(p, "description", << >>).v IN
    IF Len(description) > DescLimit
    THEN SubSeq(description, 1, DescLimit) \o <<".", ".", ".">>
    ELSE description

\* Whether building the row of lines 160-176 raises: None.values() (line 169),
\* fromtimestamp(None) (line 170), len(None) (line 174).
RowRaises(p) ==
    \/ Get(p, "categories", << >>).tag = "null"
    \/ Get(p, "lastUpdateTime", 0).tag = "null"
    \/ Get(p, "description", << >>).tag = "null"

\* lines 160-176: the row of one record (the pass-through text columns Author,
\* Owner, Email, Website, Feed URL, iTunes ID and Image are plain .get calls
\* like Title and are left out)
Row(p, zone) ==
    [Title        |-> Get(p, "title", <<"U","n","k","n","o","w","n">>),
     Episodes     |-> Get(p, "episodeCount", 0),
     Language     |-> Get(p, "language", << >>),
     Categories   |-> Join(Get(p, "categories", << >>).v),
     Last_Updated |-> LastUpdatedCell(p, zone),
     Created      |-> CreatedCell(p, zone),
     Explicit     |-> LET explicit == Get(p, "explicit", FALSE) IN
                      IF explicit.tag = "val" /\ explicit.v THEN "Yes" ELSE "No",
     Description  |-> DescriptionCell(p)]

\* extract_podcast_data(podcasts): the rows of the DataFrame, in order
extract_podcast_data(list, zone) ==
    IF \E i \in 1..Len(list) : RowRaises(list[i])
    THEN [outcome |-> "raise", value |-> << >>]
    ELSE [outcome |-> "return", value |-> [i \in 1..Len(list) |-> Row(list[i], zone)]]

-----------------------------------------------------------------------------
(* get_podcast_index_headers, search_podcasts, search_by_term, lines 42-96 *)

\* lines 44-53; hashlib.sha1 is kept symbolic: the digest of its three inputs
get_podcast_index_headers(key, secret, clock) ==
    LET epoch_time == IntTrunc(clock.sec, clock.half) IN
    [X_Auth_Date   |-> Str(epoch_time),
     X_Auth_Key    |-> key,
     Authorization |-> [sha1 |-> <<key, secret, Str(epoch_time)>>],
     User_Agent    |-> "PodcastFinderPro/1.0"]

\* lines 57-63: the request of search_podcasts
RecentFeedsRequest(key, secret, max_results, days_back, clock) ==
    [url     |-> "https://api.podcastindex.org/api/1.0/recent/feeds",
     params  |-> [q |-> << >>, since |-> CutoffOf(clock, days_back), max |-> max_results],
     headers |-> get_podcast_index_headers(key, secret, clock),
     timeout |-> Timeout]

\* lines 80-83: the request of search_by_term
ByTermRequest(key, secret, term, clock) ==
    [url     |-> "https://api.podcastindex.org/api/1.0/search/byterm",
     params  |-> [q |-> term, since |-> 0, max |-> MaxByTerm],
     headers |-> get_podcast_index_headers(key, secret, clock),
     timeout |-> Timeout]

NoError == Null([prefix |-> "", text |-> << >>])

Failure(prefix, text) == Val([prefix |-> prefix, text |-> text])

UnknownError == <<"U","n","k","n","o","w","n"," ","e","r","r","o","r">>

\* lines 65-76: what search_podcasts returns for the outcome r of requests.get.
\* r.raised: requests.get raised (timeout, connection error); r.is_json: whether
\* response.json() parses the body (it raises otherwise, inside the try).
search_podcasts_result(r) ==
    IF r.raised
    THEN [podcasts |-> Val(<< >>), error |-> Failure("Connection Error: ", r.cause)]
    ELSE IF r.status_code = 200
    THEN IF ~r.is_json
         THEN [podcasts |-> Val(<< >>), error |-> Failure("Connection Error: ", r.cause)]
         ELSE IF Get1(r.data, "status").tag = "val" /\ Get1(r.data, "status").v = "true"
         THEN [podcasts |-> Get(r.data, "feeds", << >>), error |-> NoError]
         ELSE [podcasts |-> Val(<< >>),
               error    |-> Failure("API Error: ",
                                    Get(r.data, "description", UnknownError).v)]
    ELSE [podcasts |-> Val(<< >>), error |-> Failure("HTTP Error ", Str(r.status_code))]

\* search_by_term's handling with a failure flag reported as zero results
search_by_term_silent(r) ==
    IF r.raised
    THEN [podcasts |-> Val(<< >>), error |-> Failure("Connection Error: ", r.cause)]
    ELSE IF r.status_code = 200
    THEN IF ~r.is_json
         THEN [podcasts |-> Val(<< >>), error |-> Failure("Connection Error: ", r.cause)]
         ELSE IF Get1(r.data, "status").tag = "val" /\ Get1(r.data, "status").v = "true"
         THEN [podcasts |-> Get(r.data, "feeds", << >>), error |-> NoError]
         ELSE [podcasts |-> Val(<< >>), error |-> NoError]
    ELSE [podcasts |-> Val(<< >>), error |-> Failure("HTTP Error ", Str(r.status_code))]

\* lines 85-96: the same handling, in search_by_term
search_by_term_result(r) ==
    IF r.raised
    THEN [podcasts |-> Val(<< >>), error |-> Failure("Connection Error: ", r.cause)]
    ELSE IF r.status_code = 200
    THEN IF ~r.is_json
         THEN [podcasts |-> Val(<< >>), error |-> Failure("Connection Error: ", r.cause)]
         ELSE IF Get1(r.data, "status").tag = "val" /\ Get1(r.data, "status").v = "true"
         THEN [podcasts |-> Get(r.data, "feeds", << >>), error |-> NoError]
         ELSE [podcasts |-> Val(<< >>),
               error    |-> Failure("API Error: ",
                                    Get(r.data, "description", UnknownError).v)]
    ELSE [podcasts |-> Val(<< >>), error |-> Failure("HTTP Error ", Str(r.status_code))]

-----------------------------------------------------------------------------
(* The inputs the model draws from *)

\* 2026-11-04 12:00:00 UTC, in epoch seconds
ClockBase == 20761 * SecondsPerDay + 43200

\* Clock readings: on a whole second, and half a second later with the second
\* reading of filter_podcasts falling into the next second.
Clocks == {[sec |-> ClockBase, half |-> 0, gap |-> 0],
           [sec |-> ClockBase, half |-> 1, gap |-> 1]}

DaysAgo(n) == ClockBase - n * SecondsPerDay

\* UTC, US Eastern (UTC-5), Central Europe (UTC+1)
TimeZones == {0, -18000, 3600}

Business == <<"B","u","s","i","n","e","s","s">>

TechnologyNews == <<"T","e","c","h","n","o","l","o","g","y"," ","N","e","w","s">>

Tech == <<"t","e","c","h">>

FR == <<"f","r">>

Feed(ep, lang, ex, lu, da, cats) ==
    [title          |-> Absent(<< >>),
     description    |-> Absent(<< >>),
     episodeCount   |-> ep,
     language       |-> lang,
     explicit       |-> ex,
     lastUpdateTime |-> lu,
     dateAdded      |-> da,
     categories     |-> cats]

\* spec.md, example scenario 1
BaseFeed ==
    Feed(Val(20), Val(EN), Val(FALSE), Val(DaysAgo(5)), Val(DaysAgo(100)),
         Val(<<Business>>))

\* a British, explicit technology feed
UKFeed ==
    Feed(Val(20), Val(<<"e","n","-","G","B">>), Val(TRUE), Val(DaysAgo(5)),
         Val(DaysAgo(100)), Val(<<Business, TechnologyNews>>))

\* {}: no key at all
EmptyFeed ==
    Feed(Absent(0), Absent(<< >>), Absent(FALSE), Absent(0), Absent(0), Absent(<< >>))

\* lastUpdateTime 0, episodeCount on the floor of 15, Canadian
ZeroUpdateFeed ==
    Feed(Val(15), Val(<<"e","n","-","C","A">>), Val(FALSE), Val(0), Val(DaysAgo(100)),
         Val(<<Business>>))

\* lastUpdateTime on the very second of a 30-day cutoff, dateAdded 0, explicit None
BoundaryFeed ==
    Feed(Val(20), Val(<<"E","N","-","U","S">>), Null(FALSE), Val(DaysAgo(30)),
         Val(0), Val(<<TechnologyNews>>))

\* last update 40 days ago (example scenario 3), created 400 days ago,
\* Australian, no category
OldFeed ==
    Feed(Val(20), Val(<<"e","n","-","a","u">>), Val(FALSE), Val(DaysAgo(40)),
         Val(DaysAgo(400)), Val(<< >>))

\* language, dateAdded and categories present with the value None
NullTextFeed ==
    Feed(Val(20), Null(<< >>), Val(TRUE), Val(DaysAgo(5)), Null(0), Null(<< >>))

\* episodeCount present with the value None
NullEpisodesFeed ==
    Feed(Null(0), Val(EN), Val(FALSE), Val(DaysAgo(5)), Val(DaysAgo(100)),
         Val(<<Business>>))

\* lastUpdateTime present with the value None
NullUpdateFeed ==
    Feed(Val(20), Val(EN), Val(FALSE), Null(0), Val(DaysAgo(100)), Val(<<Business>>))

FilterPool == {BaseFeed, UKFeed, EmptyFeed, ZeroUpdateFeed, BoundaryFeed, OldFeed,
               NullTextFeed, NullEpisodesFeed, NullUpdateFeed}

\* The lists of length at most n over the set S
ListsUpTo(S, n) == UNION {[1..k -> S] : k \in 0..n}

Countries == {"Any", "US", "UK", "Canada", "Australia"}

\* the default of the Languages widget (line 262)
DefaultLanguages == <<EN, EN_US>>

\* a language list in mixed case: EN-gb, fr, en-au, en-CA
RegionalLanguages ==
    <<<<"E","N","-","g","b">>, FR, EN_AU, <<"e","n","-","C","A">>>>

\* Arguments of filter_podcasts: any ints for the three numbers (0 and a window
\* of 21000 days, which reaches back before 1970, included), any lists, any
\* country.
AnyCriteria ==
    [min_episodes        : {0, 15},
     max_days_since_post : {0, 30, 21000},
     created_within_days : {0, 365},
     languages           : {<< >>, DefaultLanguages, RegionalLanguages},
     exclude_explicit    : BOOLEAN,
     categories_filter   : {<< >>, <<Tech>>},
     country_filter      : Countries]

NotRun == [outcome |-> "none", value |-> << >>]

NoSecrets == [api_key |-> Absent(""), api_secret |-> Absent("")]

NoResponse ==
    [raised |-> FALSE, cause |-> << >>, status_code |-> 0, is_json |-> FALSE,
     data |-> [status |-> Absent(""), description |-> Absent(<< >>),
               feeds |-> Absent(<< >>)]]

NoCriteria ==
    [min_episodes |-> 1, max_days_since_post |-> 1, created_within_days |-> 0,
     languages |-> << >>, exclude_explicit |-> FALSE, categories_filter |-> << >>,
     country_filter |-> "Any"]

-----------------------------------------------------------------------------
(* filter_podcasts called on its own *)

InitFilter ==
    /\ pc = "filter_podcasts"
    /\ now \in Clocks
    /\ tz = 0
    /\ secrets = NoSecrets
    /\ api_key = ""
    /\ api_secret = ""
    /\ search_term = << >>
    /\ search_button = FALSE
    /\ criteria \in AnyCriteria
    /\ sent = << >>
    /\ response = NoResponse
    /\ podcasts \in {Val(l) : l \in ListsUpTo(FilterPool, MaxLen)}
    /\ error = NoError
    /\ filtered = NotRun
    /\ df = NotRun
    /\ notices = << >>

CallFilter ==
    /\ pc = "filter_podcasts"
    /\ filtered' = filter_podcasts(podcasts.v, criteria, now)
    /\ pc' = IF filtered'.outcome = "raise" THEN "raised" ELSE "returned"
    /\ UNCHANGED <<now, tz, secrets, api_key, api_secret, search_term, search_button,
                   criteria, sent, response, podcasts, error, df, notices>>

NextFilter == CallFilter

SpecFilter == InitFilter /\ [][NextFilter]_vars

-----------------------------------------------------------------------------
(* extract_podcast_data called on its own *)

\* a feed with a title, a description of DescLimit + 1 characters and a last
\* update at 02:00 UTC, which is the day before in a zone west of UTC
LongFeed ==
    [BaseFeed EXCEPT !.title = Val(<<"T">>),
                     !.description = Val([i \in 1..(DescLimit + 1) |-> "x"]),
                     !.lastUpdateTime = Val(DaysAgo(5) - 36000)]

ExtractPool == {BaseFeed, UKFeed, EmptyFeed, ZeroUpdateFeed, BoundaryFeed, LongFeed,
                NullTextFeed, NullUpdateFeed}

InitExtract ==
    /\ pc = "extract_podcast_data"
    /\ now \in Clocks
    /\ tz \in TimeZones
    /\ secrets = NoSecrets
    /\ api_key = ""
    /\ api_secret = ""
    /\ search_term = << >>
    /\ search_button = FALSE
    /\ criteria = NoCriteria
    /\ sent = << >>
    /\ response = NoResponse
    /\ podcasts \in {Val(l) : l \in ListsUpTo(ExtractPool, MaxLen)}
    /\ error = NoError
    /\ filtered = NotRun
    /\ df = NotRun
    /\ notices = << >>

CallExtract ==
    /\ pc = "extract_podcast_data"
    /\ df' = extract_podcast_data(podcasts.v, tz)
    /\ pc' = IF df'.outcome = "raise" THEN "raised" ELSE "returned"
    /\ UNCHANGED <<now, tz, secrets, api_key, api_secret, search_term, search_button,
                   criteria, sent, response, podcasts, error, filtered, notices>>

NextExtract == CallExtract

SpecExtract == InitExtract /\ [][NextExtract]_vars

-----------------------------------------------------------------------------
(* search_by_term and search_podcasts called on their own *)

InvalidAuth == <<"I","n","v","a","l","i","d"," ","a","u","t","h">>

TimedOut == <<"R","e","a","d"," ","t","i","m","e","d"," ","o","u","t">>

ConnectionRefused == <<"C","o","n","n","e","c","t","i","o","n"," ","r","e","f","u","s","e","d">>

ExpectingValue == <<"E","x","p","e","c","t","i","n","g"," ","v","a","l","u","e">>

\* the records a response body's "feeds" array is made of
FeedPool == {BaseFeed, OldFeed, NullTextFeed}

Body(status, description, feeds) ==
    [status |-> status, description |-> description, feeds |-> feeds]

\* the JSON objects a 200 response carries: a failure flag (or none) with and
\* without a description and with and without feeds; the success flag with no
\* feeds key, feeds null, and every feeds array of up to MaxFeeds records
Bodies ==
    {Body(st, de, fe) : st \in {Val("false"), Absent("")},
                        de \in {Absent(<< >>), Val(InvalidAuth)},
                        fe \in {Absent(<< >>), Val(<<BaseFeed>>)}}
    \cup {Body(Val("true"), Absent(<< >>), fe) :
             fe \in {Absent(<< >>), Null(<< >>)}
                    \cup {Val(l) : l \in ListsUpTo(FeedPool, MaxFeeds)}}
    \cup {Body(Val("true"), Val(InvalidAuth), Val(<< >>))}

\* the outcomes of requests.get: an exception, a status other than 200, a 200
\* whose body is not JSON, a 200 with a JSON object
Responses ==
    {[NoResponse EXCEPT !.raised = TRUE, !.cause = ca] :
        ca \in {TimedOut, ConnectionRefused}}
    \cup {[NoResponse EXCEPT !.status_code = co, !.is_json = js] :
             co \in {401, 404, 500}, js \in BOOLEAN}
    \cup {[NoResponse EXCEPT !.status_code = 200, !.cause = ExpectingValue]}
    \cup {[NoResponse EXCEPT !.status_code = 200, !.is_json = TRUE, !.data = b] :
             b \in Bodies}

Terms == {<< >>, <<" ">>, Tech}

InitClient ==
    /\ pc = "client"
    /\ now \in Clocks
    /\ tz = 0
    /\ secrets = NoSecrets
    /\ api_key \in {"", "K"}
    /\ api_secret \in {"", "S"}
    /\ search_term \in Terms
    /\ search_button = FALSE
    /\ criteria = NoCriteria
    /\ sent = << >>
    /\ response = NoResponse
    /\ podcasts = Val(<< >>)
    /\ error = NoError
    /\ filtered = NotRun
    /\ df = NotRun
    /\ notices = << >>

\* search_by_term(api_key, api_secret, search_term), lines 78-96
CallSearchByTerm ==
    /\ pc = "client"
    /\ \E r \in Responses :
          /\ sent' = Append(sent, ByTermRequest(api_key, api_secret, search_term, now))
          /\ response' = r
          /\ podcasts' = search_by_term_result(r).podcasts
          /\ error' = search_by_term_result(r).error
    /\ pc' = "search_by_term returned"
    /\ UNCHANGED <<now, tz, secrets, api_key, api_secret, search_term, search_button,
                   criteria, filtered, df, notices>>

\* search_podcasts(api_key, api_secret, max_results, days_back), lines 55-76
CallSearchPodcasts ==
    /\ pc = "client"
    /\ \E r \in Responses, max_results \in {100, 1000}, days_back \in {30, 365} :
          /\ sent' = Append(sent, RecentFeedsRequest(api_key, api_secret, max_results,
                                                     days_back, now))
          /\ response' = r
          /\ podcasts' = search_podcasts_result(r).podcasts
          /\ error' = search_podcasts_result(r).error
    /\ pc' = "search_podcasts returned"
    /\ UNCHANGED <<now, tz, secrets, api_key, api_secret, search_term, search_button,
                   criteria, filtered, df, notices>>

NextClient == CallSearchByTerm \/ CallSearchPodcasts

SpecClient == InitClient /\ [][NextClient]_vars

-----------------------------------------------------------------------------
(* main(), lines 182-412: one run of the script per user interaction *)

\* s.split(','): the pieces of s between commas
RECURSIVE SplitFrom(_, _, _)
SplitFrom(s, i, piece) ==
    IF i > Len(s) THEN <<piece>>
    ELSE IF s[i] = "," THEN <<piece>> \o SplitFrom(s, i + 1, << >>)
    ELSE SplitFrom(s, i + 1, Append(piece, s[i]))

Split(s) == SplitFrom(s, 1, << >>)

\* line 274
CategoriesFilterOf(categories_input) ==
    IF categories_input # << >>
    THEN LET parts == Split(categories_input) IN
         [i \in 1..Len(parts) |-> Strip(parts[i])]
    ELSE << >>

\* "tech, business"
TechBusinessInput ==
    <<"t","e","c","h",","," ","b","u","s","i","n","e","s","s">>

\* What the sidebar widgets of lines 224-274 can hold: sliders within their
\* ranges (1..500, 1..365, 0..3650), the country selectbox, the language
\* multiselect, the checkbox and the categories text.
WidgetCriteria ==
    {[min_episodes        |-> me,
      max_days_since_post |-> md,
      created_within_days |-> cw,
      languages           |-> la,
      exclude_explicit    |-> ee,
      categories_filter   |-> CategoriesFilterOf(ci),
      country_filter      |-> co] :
        me \in {1, 15}, md \in {1, 30}, cw \in {0, 365},
        la \in {<< >>, DefaultLanguages}, ee \in BOOLEAN,
        ci \in {<< >>, TechBusinessInput}, co \in {"Any", "US", "UK"}}

\* the [podcast_index] section of the secrets file: each key missing, empty or set
SecretStores ==
    [api_key : {Absent(""), Val(""), Val("K")},
     api_secret : {Absent(""), Val(""), Val("S")}]

NoDetail == [prefix |-> "", text |-> << >>]

Notice(kind, text) == [kind |-> kind, text |-> text, detail |-> NoDetail]

ErrorNotice(message) == [kind |-> "error", text |-> "fetch", detail |-> message]

Init ==
    /\ pc = "main:192"
    /\ now \in Clocks
    /\ tz = 0
    /\ secrets \in SecretStores
    /\ api_key = ""
    /\ api_secret = ""
    /\ search_term = << >>
    /\ search_button = FALSE
    /\ criteria = NoCriteria
    /\ sent = << >>
    /\ response = NoResponse
    /\ podcasts = Val(<< >>)
    /\ error = NoError
    /\ filtered = NotRun
    /\ df = NotRun
    /\ notices = << >>

\* lines 192-195: both secrets are there
CredentialsStored ==
    /\ pc = "main:192"
    /\ secrets.api_key.tag = "val"
    /\ secrets.api_secret.tag = "val"
    /\ api_key' = secrets.api_key.v
    /\ api_secret' = secrets.api_secret.v
    /\ notices' = Append(notices, Notice("success", "Using stored credentials"))
    /\ pc' = "main:212"
    /\ UNCHANGED <<now, tz, secrets, search_term, search_button, criteria, sent,
                   response, podcasts, error, filtered, df>>

\* lines 196-203: a secret is missing, both text inputs are filled in
CredentialsEntered ==
    /\ pc = "main:192"
    /\ secrets.api_key.tag = "absent" \/ secrets.api_secret.tag = "absent"
    /\ \E k \in {"", "K"}, x \in {"", "S"} :
          /\ ~(k = "" \/ x = "")
          /\ api_key' = k
          /\ api_secret' = x
    /\ notices' = Append(notices, Notice("info", "Enter your Podcast Index API credentials"))
    /\ pc' = "main:212"
    /\ UNCHANGED <<now, tz, secrets, search_term, search_button, criteria, sent,
                   response, podcasts, error, filtered, df>>

\* lines 196-206: a secret is missing and a text input is empty: st.stop()
CredentialsRefused ==
    /\ pc = "main:192"
    /\ secrets.api_key.tag = "absent" \/ secrets.api_secret.tag = "absent"
    /\ \E k \in {"", "K"}, x \in {"", "S"} :
          /\ k = "" \/ x = ""
          /\ api_key' = k
          /\ api_secret' = x
    /\ notices' = notices \o <<Notice("info", "Enter your Podcast Index API credentials"),
                                Notice("warning", "Enter API credentials")>>
    /\ pc' = "stopped"
    /\ UNCHANGED <<now, tz, secrets, search_term, search_button, criteria, sent,
                   response, podcasts, error, filtered, df>>

\* lines 212-279: the widgets return what the user set
Widgets ==
    /\ pc = "main:212"
    /\ search_term' \in Terms
    /\ criteria' \in WidgetCriteria
    /\ search_button' \in BOOLEAN
    /\ pc' = "main:282"
    /\ UNCHANGED <<now, tz, secrets, api_key, api_secret, sent, response, podcasts,
                   error, filtered, df, notices>>

\* lines 351-381: the button was not pressed
Welcome ==
    /\ pc = "main:282"
    /\ ~search_button
    /\ notices' = Append(notices, Notice("info", "Welcome to Podcast Finder Pro!"))
    /\ pc' = "done"
    /\ UNCHANGED <<now, tz, secrets, api_key, api_secret, search_term, search_button,
                   criteria, sent, response, podcasts, error, filtered, df>>

\* lines 283-285
BlankTerm ==
    /\ pc = "main:282"
    /\ search_button
    /\ search_term = << >> \/ Strip(search_term) = << >>
    /\ notices' = Append(notices, Notice("error", "Please enter a search term"))
    /\ pc' = "stopped"
    /\ UNCHANGED <<now, tz, secrets, api_key, api_secret, search_term, search_button,
                   criteria, sent, response, podcasts, error, filtered, df>>

\* line 288: podcasts, error = search_by_term(api_key, api_secret, search_term)
Search ==
    /\ pc = "main:282"
    /\ search_button
    /\ ~(search_term = << >> \/ Strip(search_term) = << >>)
    /\ \E r \in Responses :
          /\ sent' = Append(sent, ByTermRequest(api_key, api_secret, search_term, now))
          /\ response' = r
          /\ podcasts' = search_by_term_result(r).podcasts
          /\ error' = search_by_term_result(r).error
    /\ pc' = "main:290"
    /\ UNCHANGED <<now, tz, secrets, api_key, api_secret, search_term, search_button,
                   criteria, filtered, df, notices>>

\* if error: a str is truthy unless empty, None is falsy
Truthy(e) == e.tag = "val" /\ e.v # [prefix |-> "", text |-> << >>]

\* if not podcasts: None and [] are falsy
NoRecords(list) == list.tag # "val" \/ list.v = << >>

\* ReportError without its st.stop(): the run goes on to line 294, where the
\* empty list that came with the error is reported as "no podcasts found"
ReportErrorNoStop ==
    /\ pc = "main:290"
    /\ Truthy(error)
    /\ notices' = notices \o <<ErrorNotice(error.v),
                                Notice("warning", "No podcasts found")>>
    /\ pc' = "stopped"
    /\ UNCHANGED <<now, tz, secrets, api_key, api_secret, search_term, search_button,
                   criteria, sent, response, podcasts, error, filtered, df>>

\* lines 290-292
ReportError ==
    /\ pc = "main:290"
    /\ Truthy(error)
    /\ notices' = Append(notices, ErrorNotice(error.v))
    /\ pc' = "stopped"
    /\ UNCHANGED <<now, tz, secrets, api_key, api_secret, search_term, search_button,
                   criteria, sent, response, podcasts, error, filtered, df>>

\* lines 294-296
NoPodcasts ==
    /\ pc = "main:290"
    /\ ~Truthy(error)
    /\ NoRecords(podcasts)
    /\ notices' = Append(notices, Notice("warning", "No podcasts found"))
    /\ pc' = "stopped"
    /\ UNCHANGED <<now, tz, secrets, api_key, api_secret, search_term, search_button,
                   criteria, sent, response, podcasts, error, filtered, df>>

\* lines 298-310: the success message, then filter_podcasts; an exception of
\* filter_podcasts is not caught and ends the run
Filter ==
    /\ pc = "main:290"
    /\ ~Truthy(error)
    /\ ~NoRecords(podcasts)
    /\ notices' = Append(notices, Notice("success", "Found podcasts"))
    /\ filtered' = filter_podcasts(podcasts.v, criteria, now)
    /\ pc' = IF filtered'.outcome = "raise" THEN "crashed" ELSE "main:312"
    /\ UNCHANGED <<now, tz, secrets, api_key, api_secret, search_term, search_button,
                   criteria, sent, response, podcasts, error, df>>

\* NoMatches without the test of line 312: an empty result goes on to line 316
NoMatchesFallsThrough ==
    /\ pc = "main:312"
    /\ filtered.value = << >>
    /\ df' = extract_podcast_data(filtered.value, tz)
    /\ pc' = "main:319"
    /\ UNCHANGED <<now, tz, secrets, api_key, api_secret, search_term, search_button,
                   criteria, sent, response, podcasts, error, filtered, notices>>

\* lines 312-314
NoMatches ==
    /\ pc = "main:312"
    /\ filtered.value = << >>
    /\ notices' = Append(notices, Notice("warning", "No matches. Relax filters."))
    /\ pc' = "stopped"
    /\ UNCHANGED <<now, tz, secrets, api_key, api_secret, search_term, search_button,
                   criteria, sent, response, podcasts, error, filtered, df>>

\* line 316: df = extract_podcast_data(filtered); an exception ends the run
Extract ==
    /\ pc = "main:312"
    /\ filtered.value # << >>
    /\ df' = extract_podcast_data(filtered.value, tz)
    /\ pc' = IF df'.outcome = "raise" THEN "crashed" ELSE "main:319"
    /\ UNCHANGED <<now, tz, secrets, api_key, api_secret, search_term, search_button,
                   criteria, sent, response, podcasts, error, filtered, notices>>

\* lines 319-350: the header and the metrics, then, when columns are selected,
\* the table and the CSV download button
Results ==
    /\ pc = "main:319"
    /\ \E selected_cols \in BOOLEAN :
          notices' = notices \o <<Notice("header", "Results")>>
                             \o (IF selected_cols
                                 THEN <<Notice("dataframe", "table"),
                                        Notice("download", "Download CSV")>>
                                 ELSE << >>)
    /\ pc' = "done"
    /\ UNCHANGED <<now, tz, secrets, api_key, api_secret, search_term, search_button,
                   criteria, sent, response, podcasts, error, filtered, df>>

\* The user touches a widget: Streamlit runs the script again from the top.
Rerun ==
    /\ pc \in {"stopped", "done", "crashed"}
    /\ pc' = "main:192"
    /\ api_key' = ""
    /\ api_secret' = ""
    /\ search_term' = << >>
    /\ search_button' = FALSE
    /\ criteria' = NoCriteria
    /\ sent' = << >>
    /\ response' = NoResponse
    /\ podcasts' = Val(<< >>)
    /\ error' = NoError
    /\ filtered' = NotRun
    /\ df' = NotRun
    /\ notices' = << >>
    /\ UNCHANGED <<now, tz, secrets>>

Next ==
    \/ CredentialsStored
    \/ CredentialsEntered
    \/ CredentialsRefused
    \/ Widgets
    \/ Welcome
    \/ BlankTerm
    \/ Search
    \/ ReportError
    \/ NoPodcasts
    \/ Filter
    \/ NoMatches
    \/ Extract
    \/ Results
    \/ Rerun

Spec == Init /\ [][Next]_vars

-----------------------------------------------------------------------------
(* The seven predicates of the record filter, stated on their own: each reads *)
(* a field with its documented default (absent or None: the default) and is   *)
(* true when the criteria leave it unfiltered.                                *)

Documented(p, key, default) == IF p[key].tag = "val" THEN p[key].v ELSE default

EpisodeFloor(p, c) == Documented(p, "episodeCount", 0) >= c.min_episodes

LanguageMembership(p, c) ==
    \/ c.languages = << >>
    \/ \E i \in 1..Len(c.languages) :
          Lower(c.languages[i]) = Lower(Documented(p, "language", << >>))

ExplicitExclusion(p, c) == ~c.exclude_explicit \/ ~Documented(p, "explicit", FALSE)

RecencyWindow(p, c, clock) ==
    Documented(p, "lastUpdateTime", 0) >= CutoffOf(clock, c.max_days_since_post)

CreationWindow(p, c, clock) ==
    \/ c.created_within_days <= 0
    \/ Documented(p, "dateAdded", 0) <= 0
    \/ Documented(p, "dateAdded", 0)
          >= CutoffOf(SecondReading(clock), c.created_within_days)

CountryCode(country) ==
    CASE country = "US" -> EN_US
      [] country = "UK" -> EN_GB
      [] country = "Canada" -> EN_CA
      [] country = "Australia" -> EN_AU

CountryHeuristic(p, c) ==
    LET language == Lower(Documented(p, "language", << >>)) IN
    \/ c.country_filter = "Any"
    \/ Contains(CountryCode(c.country_filter), language)
    \/ c.country_filter = "US" /\ language = EN

CategoryMatch(p, c) ==
    \/ c.categories_filter = << >>
    \/ \E f \in 1..Len(c.categories_filter) :
          \E k \in 1..Len(Documented(p, "categories", << >>)) :
             Contains(Lower(c.categories_filter[f]),
                      Lower(Documented(p, "categories", << >>)[k]))

SatisfiesAllSeven(p) ==
    /\ EpisodeFloor(p, criteria)
    /\ LanguageMembership(p, criteria)
    /\ ExplicitExclusion(p, criteria)
    /\ RecencyWindow(p, criteria, now)
    /\ CreationWindow(p, criteria, now)
    /\ CountryHeuristic(p, criteria)
    /\ CategoryMatch(p, criteria)

AllFiltersActive ==
    /\ criteria.min_episodes > 0
    /\ criteria.max_days_since_post = 30
    /\ criteria.created_within_days > 0
    /\ criteria.languages # << >>
    /\ criteria.exclude_explicit
    /\ criteria.categories_filter # << >>
    /\ criteria.country_filter # "Any"

\* C1: whenever filter_podcasts returns, the list it returns is exactly the
\* subsequence of its input made of the records that satisfy all seven
\* predicates, in the input's order and with the input's duplicates.
C1_ExactSubsequence ==
    pc = "returned" => filtered.value = SelectSeq(podcasts.v, SatisfiesAllSeven)

\* C1 witness: with all seven filters active, a list holding the same record
\* twice, followed by nothing else, is returned with both copies in place.
C1_Witness ==
    /\ pc = "returned"
    /\ AllFiltersActive
    /\ Len(podcasts.v) = 2
    /\ podcasts.v[1] = podcasts.v[2]
    /\ filtered.value = podcasts.v

\* Criteria in which every field that has an unfiltered setting is unfiltered.
Unfiltered ==
    /\ criteria.languages = << >>
    /\ criteria.categories_filter = << >>
    /\ criteria.created_within_days = 0
    /\ ~criteria.exclude_explicit
    /\ criteria.country_filter = "Any"

\* C2 as stated: with every field unfiltered and both windows zero,
\* filter_podcasts returns its input unchanged.
C2_UnfilteredIsIdentity ==
    (pc = "returned" /\ Unfiltered /\ criteria.max_days_since_post = 0)
        => filtered.value = podcasts.v

KeptWhenUnfiltered(p) ==
    /\ Documented(p, "episodeCount", 0) >= criteria.min_episodes
    /\ Documented(p, "lastUpdateTime", 0) >= CutoffOf(now, criteria.max_days_since_post)

\* a record on which the two reads left under unfiltered criteria meet a None
NoneReadWhenUnfiltered(p) ==
    \/ p.episodeCount.tag = "null"
    \/ /\ p.lastUpdateTime.tag = "null"
       /\ Documented(p, "episodeCount", 0) >= criteria.min_episodes

\* C2 amended: with the language set and the category set empty, the creation
\* window 0, exclude-explicit off and country Any, filter_podcasts returns
\* exactly the records whose episodeCount reaches min_episodes and whose
\* lastUpdateTime reaches the cutoff of max_days_since_post, in input order;
\* the input comes back unchanged exactly when every record is such a record.
\* The call raises instead exactly when a record's episodeCount is None, or
\* its lastUpdateTime is None and its episodeCount reaches the floor.
C2_UnfilteredKeepsFloorAndRecency ==
    (pc \in {"returned", "raised"} /\ Unfiltered)
        => /\ pc = "raised"
                 <=> \E i \in 1..Len(podcasts.v) : NoneReadWhenUnfiltered(podcasts.v[i])
           /\ pc = "returned"
                 => /\ filtered.value = SelectSeq(podcasts.v, KeptWhenUnfiltered)
                    /\ (filtered.value = podcasts.v)
                          <=> \A i \in 1..Len(podcasts.v) :
                                 KeptWhenUnfiltered(podcasts.v[i])

\* C2 witness: unfiltered criteria with a zero recency window, a two-record
\* input, and a result that lost a record.
C2_Witness ==
    /\ pc = "returned"
    /\ Unfiltered
    /\ criteria.max_days_since_post = 0
    /\ Len(podcasts.v) = 2
    /\ Len(filtered.value) < 2

\* C3 as stated: filter_podcasts never raises, whichever fields of a record
\* are absent or None, and decides as if each such field held its default.
C3_TotalWithDefaults ==
    /\ pc # "raised"
    /\ pc = "returned" => filtered.value = SelectSeq(podcasts.v, SatisfiesAllSeven)

ZeroOrAbsentUpdate(p) ==
    \/ p.lastUpdateTime.tag = "absent"
    \/ p.lastUpdateTime.tag = "val" /\ p.lastUpdateTime.v = 0

\* C8 as stated: for every positive max_days_since_post, no record whose
\* lastUpdateTime is 0 or absent is in the returned list.
C8_ZeroUpdateExcluded ==
    (pc = "returned" /\ criteria.max_days_since_post > 0)
        => \A i \in 1..Len(filtered.value) : ~ZeroOrAbsentUpdate(filtered.value[i])

\* C8 amended: for every positive max_days_since_post whose cutoff
\* int(now - max_days_since_post days) is after the epoch, no record whose
\* lastUpdateTime is 0 or absent is in the returned list.
C8_ZeroUpdateExcludedAfterEpoch ==
    (/\ pc = "returned"
     /\ criteria.max_days_since_post > 0
     /\ CutoffOf(now, criteria.max_days_since_post) > 0)
        => \A i \in 1..Len(filtered.value) : ~ZeroOrAbsentUpdate(filtered.value[i])

\* C8 witness: a 30-day window, no other filter, and an input of a record with
\* lastUpdateTime 0 followed by a recent one: only the recent one is returned.
C8_Witness ==
    /\ pc = "returned"
    /\ Unfiltered
    /\ criteria.max_days_since_post = 30
    /\ Len(podcasts.v) = 2
    /\ ZeroOrAbsentUpdate(podcasts.v[1])
    /\ Documented(podcasts.v[1], "episodeCount", 0) >= criteria.min_episodes
    /\ filtered.value = <<podcasts.v[2]>>
    /\ podcasts.v[2] # podcasts.v[1]

LanguageCountryCase ==
    /\ pc = "returned"
    /\ criteria.languages # << >>
    /\ criteria.country_filter \in {"UK", "Canada", "Australia"}

\* C10: with a non-empty language set and country UK (Canada, Australia), every
\* returned record's lower-cased language equals a (lower-cased) entry of the
\* set that contains en-gb (en-ca, en-au); with no such entry in the set the
\* returned list is empty.
C10_LanguageAndCountryConjoined ==
    LanguageCountryCase
        => /\ \A i \in 1..Len(filtered.value) :
                \E k \in 1..Len(criteria.languages) :
                   /\ Lower(criteria.languages[k])
                        = Lower(filtered.value[i].language.v)
                   /\ Contains(CountryCode(criteria.country_filter),
                               Lower(criteria.languages[k]))
           /\ (\A k \in 1..Len(criteria.languages) :
                   ~Contains(CountryCode(criteria.country_filter),
                             Lower(criteria.languages[k])))
                 => filtered.value = << >>

\* C10 witness: country UK with the default languages {en, en-us} and no other
\* filter; the input holds a British feed and an en feed, and nothing is
\* returned.
C10_Witness ==
    /\ pc = "returned"
    /\ criteria.country_filter = "UK"
    /\ criteria.languages = DefaultLanguages
    /\ criteria.min_episodes = 0
    /\ criteria.max_days_since_post = 21000
    /\ criteria.created_within_days = 0
    /\ ~criteria.exclude_explicit
    /\ criteria.categories_filter = << >>
    /\ podcasts.v = <<UKFeed, BaseFeed>>
    /\ filtered.value = << >>

-----------------------------------------------------------------------------
(* Claims about extract_podcast_data, checked under SpecExtract *)

IsDigit(ch) == \E i \in 1..Len(DigitChars) : DigitChars[i] = ch

\* a year-month-day text: dddd-dd-dd
IsYearMonthDay(s) ==
    /\ Len(s) = 10
    /\ s[5] = "-"
    /\ s[8] = "-"
    /\ \A i \in {1, 2, 3, 4, 6, 7, 9, 10} : IsDigit(s[i])

ZeroOrAbsent(p, key) ==
    \/ p[key].tag = "absent"
    \/ p[key].tag = "val" /\ p[key].v = 0

\* C9 as stated: in every row, a timestamp column (Last Updated, Created)
\* whose source value is 0 or absent is the empty string, and one whose source
\* value is non-zero is a year-month-day date.
C9_ZeroTimestampsRenderEmpty ==
    pc = "returned" =>
        \A i \in 1..Len(df.value) :
            LET p == podcasts.v[i]
                row == df.value[i]
            IN  /\ ZeroOrAbsent(p, "lastUpdateTime") => row.Last_Updated = << >>
                /\ ZeroOrAbsent(p, "dateAdded") => row.Created = << >>
                /\ (p.lastUpdateTime.tag = "val" /\ p.lastUpdateTime.v # 0)
                      => IsYearMonthDay(row.Last_Updated)
                /\ (p.dateAdded.tag = "val" /\ p.dateAdded.v # 0)
                      => IsYearMonthDay(row.Created)

-----------------------------------------------------------------------------
(* Claims about the directory client, checked under SpecClient *)

Returned == pc \in {"search_by_term returned", "search_podcasts returned"}

Succeeded(r) ==
    /\ ~r.raised
    /\ r.status_code = 200
    /\ r.is_json
    /\ r.data.status = Val("true")

\* C4: a call of search_by_term or search_podcasts makes exactly one request;
\* it returns (the feeds of the response, no error) exactly when the status is
\* 200 and the body's flag is 'true', and otherwise (an empty list, an error
\* message): "HTTP Error <code>" for a status other than 200, "API Error:
\* <description>" for a 200 whose flag is not 'true' ('Unknown error' when the
\* body has no description), "Connection Error: <cause>" when requests.get or
\* the decoding of the body raised.
C4_OneRequestClassifiedOutcome ==
    Returned =>
        /\ Len(sent) = 1
        /\ (error = NoError) <=> Succeeded(response)
        /\ Succeeded(response)
              => podcasts = (IF response.data.feeds.tag = "absent"
                             THEN Val(<< >>) ELSE response.data.feeds)
        /\ ~Succeeded(response)
              => /\ podcasts = Val(<< >>)
                 /\ error.tag = "val"
                 /\ (~response.raised /\ response.status_code # 200)
                       => error.v = [prefix |-> "HTTP Error ",
                                     text |-> Str(response.status_code)]
                 /\ (~response.raised /\ response.status_code = 200
                                      /\ response.is_json)
                       => /\ error.v.prefix = "API Error: "
                          /\ error.v.text =
                                (IF response.data.description.tag = "val"
                                 THEN response.data.description.v
                                 ELSE UnknownError)
                 /\ (response.raised \/ (response.status_code = 200
                                          /\ ~response.is_json))
                       => error.v = [prefix |-> "Connection Error: ",
                                     text |-> response.cause]

\* C4 witness: search_by_term got a 200 whose body says status 'false' with
\* the description "Invalid auth" and carries a feed all the same; it returned
\* no record and the error "API Error: Invalid auth".
C4_Witness ==
    /\ pc = "search_by_term returned"
    /\ response.status_code = 200
    /\ response.data.status = Val("false")
    /\ response.data.feeds = Val(<<BaseFeed>>)
    /\ podcasts = Val(<< >>)
    /\ error = Failure("API Error: ", InvalidAuth)
    /\ Len(sent) = 1

-----------------------------------------------------------------------------
(* Claims about the search flow of main(), checked under Spec *)

Shown(kind) == \E i \in 1..Len(notices) : notices[i].kind = kind

ShownNotice(n) == \E i \in 1..Len(notices) : notices[i] = n

NoTableNoCsv == ~Shown("header") /\ ~Shown("dataframe") /\ ~Shown("download")

LastNotice == notices[Len(notices)]

FetchFailed == error.tag = "val"

\* C5: once the fetch of a run has failed, exactly one request has been made,
\* the run is at the error test of line 290 or stopped, the last thing shown
\* when it stopped is the error message, and filter_podcasts,
\* extract_podcast_data, the results table and the CSV download never ran.
C5_FetchFailureIsTerminal ==
    FetchFailed =>
        /\ Len(sent) = 1
        /\ pc \in {"main:290", "stopped"}
        /\ pc = "stopped" => LastNotice = ErrorNotice(error.v)
        /\ filtered = NotRun
        /\ df = NotRun
        /\ NoTableNoCsv

\* C5 witness: example scenario 4: the run stopped on the API failure
\* "Invalid auth" with that error shown.
C5_Witness ==
    /\ pc = "stopped"
    /\ error = Failure("API Error: ", InvalidAuth)
    /\ LastNotice = ErrorNotice(error.v)
    /\ Len(sent) = 1

\* C6 as stated: a request is issued in a run only when both credentials of
\* that run are non-empty.
C6_NoRequestWithoutCredentials ==
    sent # << >> => (api_key # "" /\ api_secret # "")

RawEmptyNotice == Notice("warning", "No podcasts found")

FilteredEmptyNotice == Notice("warning", "No matches. Relax filters.")

\* C7: a fetch that succeeded with no record ends the run with the "no
\* podcasts found" warning, and a result emptied by filter_podcasts ends it with
\* the "no matches" warning; the two notices differ, neither is an st.error,
\* neither run shows a table or a download, and the "no matches" warning is
\* shown only after a fetch that returned records.
C7_TwoEmptyOutcomes ==
    /\ RawEmptyNotice # FilteredEmptyNotice
    /\ (sent # << >> /\ pc # "main:290" /\ ~FetchFailed /\ NoRecords(podcasts))
          => /\ pc = "stopped"
             /\ LastNotice = RawEmptyNotice
             /\ ~Shown("error")
             /\ filtered = NotRun
             /\ df = NotRun
             /\ NoTableNoCsv
    /\ (pc # "main:312" /\ filtered.outcome = "return" /\ filtered.value = << >>)
          => /\ pc = "stopped"
             /\ LastNotice = FilteredEmptyNotice
             /\ ~ShownNotice(RawEmptyNotice)
             /\ ~Shown("error")
             /\ df = NotRun
             /\ NoTableNoCsv
    /\ ShownNotice(FilteredEmptyNotice)
          => /\ ~NoRecords(podcasts)
             /\ ~FetchFailed
             /\ filtered.outcome = "return"
             /\ filtered.value = << >>

\* C7 witness: example scenario 5 in small: two records were fetched, the
\* filter returned none, and the run stopped on the "no matches" warning.
C7_Witness ==
    /\ pc = "stopped"
    /\ ~FetchFailed
    /\ podcasts.tag = "val"
    /\ Len(podcasts.v) = 2
    /\ filtered.outcome = "return"
    /\ filtered.value = << >>
    /\ LastNotice = FilteredEmptyNotice

====
